---------------------------- MODULE Spec2Model ----------------------------
(***************************************************************************)
(* Model of the SZ-EWS batch pipeline:                                     *)
(*   notebooks/merge_raw_parts.py          (merge_csv_parts)               *)
(*   notebooks/szi_step3_timeseries.py     (monthly time series)           *)
(*   notebooks/szi_step4_silence_detection.py (silence detection)          *)
(*                                                                         *)
(* Conventions.  A value pandas may hold as missing (NaN / NaT) is an      *)
(* option: <<>> is missing, <<v>> is the value v.  Floating point          *)
(* quotients are kept exact as fractions [num, den] with den > 0 and are   *)
(* compared with the decimal thresholds by cross multiplication; the       *)
(* rounding of the float mean and of the CSV text between step 3 and step  *)
(* 4 is not modelled.  State and district are held fixed in the inputs     *)
(* explored, so a region_id is determined by the sanitized PIN.  Activity  *)
(* counts are naturals.                                                    *)
(***************************************************************************)
EXTENDS Integers, Sequences, FiniteSets, TLC

VARIABLES
    pc,              \* position of the step 3 / step 4 scripts
    files,           \* the three feed CSVs on disk: [enrol, demo, bio]
    enrol, demo, bio,\* the in-memory frames of step 3 (rows with activity)
    enrol_m, demo_m, bio_m, \* the monthly aggregates: (region, month) -> sum
    df,              \* step 3's merged frame, sorted by (region_id, month)
    timeseries_csv,  \* SZEWS_timeseries_monthly.csv: [written, rows]
    df4,             \* step 4's frame (with the flag columns)
    final_csv,       \* SZEWS_final.csv: [written, rows]
    m_pc,            \* position inside merge_csv_parts
    m_files,         \* glob result: the shard files of the folder, in glob order
    m_i,             \* loop index over m_files
    df_list,         \* frames read so far
    m_out            \* merged output file: [written, rows]

vars == <<pc, files, enrol, demo, bio, enrol_m, demo_m, bio_m, df,
          timeseries_csv, df4, final_csv,
          m_pc, m_files, m_i, df_list, m_out>>

pipeVars == <<pc, files, enrol, demo, bio, enrol_m, demo_m, bio_m, df,
              timeseries_csv, df4, final_csv>>
partsVars == <<m_pc, m_files, m_i, df_list, m_out>>

-----------------------------------------------------------------------------
(* Bounds of the explored inputs *)

MaxMonths == 7        \* longest history of region 1 in the series inputs
MaxRows == 2          \* raw enrolment rows in the merge inputs
MaxShards == 3        \* shard files in a folder

(* Program constants *)

RollWindow == 6           \* rolling(6, ...)
RollMinPeriods == 3       \* min_periods=3
ModeratePct == 60         \* suppression_ratio < 0.60
SeverePct == 40           \* suppression_ratio < 0.40
ModerateMinRun == 2       \* moderate_run >= 2
SevereMinRun == 3         \* severe_run >= 3
DeepDepthPct == 70        \* suppression_depth_pct > 70

-----------------------------------------------------------------------------
(* Generic helpers *)

Range(s) == {s[i] : i \in DOMAIN s}

RECURSIVE SumSeq(_)
SumSeq(s) == IF s = <<>> THEN 0 ELSE Head(s) + SumSeq(Tail(s))

SeqsUpTo(S, n) == UNION {[1..k -> S] : k \in 0..n}

(* Fractions: [num, den], den > 0 *)
Frac(n, d) == [num |-> n, den |-> d]
FracZero == Frac(0, 1)
FracOne == Frac(1, 1)
\* f < p/100
LtPct(f, p) == f.num * 100 < p * f.den
\* f > p
GtInt(f, p) == f.num > p * f.den

-----------------------------------------------------------------------------
(* szi_step3_timeseries.py : standardize_common *)

\* c.strip().lower() on the column spellings the inputs use
CanonCol(c) ==
    CASE c = " Date"     -> "date"
      [] c = "STATE"     -> "state"
      [] c = "District " -> "district"
      [] c = "Pincode"   -> "pincode"
      [] c = "PIN"       -> "pin"
      [] c = "Age_0_5"   -> "age_0_5"
      [] OTHER           -> c

CanonCols(cols) == {CanonCol(c) : c \in cols}

required_basic == <<"date", "state", "district">>
pin_candidates == <<"pin_code", "pincode", "pin", "postal_code">>
enrol_parts == <<"age_0_5", "age_5_17", "age_18_greater">>
demo_parts == <<"demo_age_5_17", "demo_age_17_">>
bio_parts == <<"bio_age_5_17", "bio_age_17_">>

\* the loop stopping short of "district"
BasicColsNoDistrict(cols) ==
    \A i \in 1..2 : required_basic[i] \in cols

\* the for-loop over ["date","state","district"]: no exception raised
BasicColsPresent(cols) ==
    \A i \in DOMAIN required_basic : required_basic[i] \in cols

\* the auto-detection loop: pin_col is not None
PinColFound(cols) ==
    \E i \in DOMAIN pin_candidates : pin_candidates[i] \in cols

\* standardize_common returns (raises neither exception)
StandardizeOK(feed) ==
    LET cols == CanonCols(feed.columns)
    IN  BasicColsPresent(cols) /\ PinColFound(cols)

\* columns of the frame standardize_common returns (pin_col renamed)
StandardColumns(feed) ==
    LET cols == CanonCols(feed.columns)
        k == CHOOSE i \in DOMAIN pin_candidates :
                /\ pin_candidates[i] \in cols
                /\ \A j \in 1..(i-1) : pin_candidates[j] \notin cols
    IN  (cols \ {pin_candidates[k]})
            \cup {"pin_code", "yyyymm", "region_id"}

\* the per-source loop "for c in parts: if c not in df.columns: raise"
PartsPresent(feed, parts) ==
    \A i \in DOMAIN parts : parts[i] \in StandardColumns(feed)

\* pd.to_numeric(pin, errors="coerce") then astype(int): the raw PIN texts
\* the inputs use
PinToNumeric(p) ==
    CASE p = "1"   -> <<1>>
      [] p = "1.0" -> <<1>>
      [] p = "2"   -> <<2>>
      [] p = "2.0" -> <<2>>
      [] OTHER     -> <<>>

\* pd.to_datetime(date, errors="coerce") then to_period("M"): a raw date is
\* <<month, day>> or <<>> when it cannot be parsed
ToMonth(d) == IF d = <<>> THEN <<>> ELSE <<d[1]>>

\* rows surviving dropna(subset=["date"]) and dropna(subset=["pin_code"]),
\* with the month key and the region key
StandardizeRows(rows) ==
    LET keep == SelectSeq(rows, LAMBDA r :
                    ToMonth(r.date) # <<>> /\ PinToNumeric(r.pin) # <<>>)
    IN  [i \in DOMAIN keep |->
            [yyyymm    |-> ToMonth(keep[i].date)[1],
             region_id |-> PinToNumeric(keep[i].pin)[1],
             parts     |-> keep[i].parts]]

\* pd.to_numeric(col, errors="coerce").fillna(0)
NumericOrZero(v) == IF v = <<>> THEN 0 ELSE v[1]

\* sum of the source's sub-category columns, row by row
WithActivity(rows) ==
    [i \in DOMAIN rows |->
        [yyyymm    |-> rows[i].yyyymm,
         region_id |-> rows[i].region_id,
         activity  |-> SumSeq([j \in DOMAIN rows[i].parts |->
                                  NumericOrZero(rows[i].parts[j])])]]

LoadFrame(feed) == WithActivity(StandardizeRows(feed.rows))

-----------------------------------------------------------------------------
(* szi_step3_timeseries.py : monthly aggregation, merge, baseline *)

\* groupby([region_id, ..., yyyymm]).agg(sum): key -> summed activity
MonthlyAgg(rows) ==
    LET keys == {<<rows[i].region_id, rows[i].yyyymm>> : i \in DOMAIN rows}
    IN  [k \in keys |->
            SumSeq([i \in DOMAIN SelectSeq(rows, LAMBDA r :
                            <<r.region_id, r.yyyymm>> = k) |->
                     SelectSeq(rows, LAMBDA r :
                            <<r.region_id, r.yyyymm>> = k)[i].activity])]

\* second merge done as a left join: keys of bio_m alone are lost
MergeKeysLeft(e, d, b) == (DOMAIN e) \cup (DOMAIN d)

\* enrol_m.merge(demo_m, how="outer").merge(bio_m, how="outer")
MergeKeys(e, d, b) == ((DOMAIN e) \cup (DOMAIN d)) \cup (DOMAIN b)

\* a merged column after fillna(0)
Filled(agg, k) == IF k \in DOMAIN agg THEN agg[k] ELSE 0

MergedRows(e, d, b) ==
    {[region_id      |-> k[1],
      yyyymm         |-> k[2],
      enrol_activity |-> Filled(e, k),
      demo_activity  |-> Filled(d, k),
      bio_activity   |-> Filled(b, k),
      total_activity |-> Filled(e, k) + Filled(d, k) + Filled(b, k)]
     : k \in MergeKeys(e, d, b)}

\* sort_values(["region_id", "yyyymm_dt"])
RowLeq(x, y) ==
    \/ x.region_id < y.region_id
    \/ x.region_id = y.region_id /\ x.yyyymm <= y.yyyymm

RECURSIVE SortRows(_)
SortRows(S) ==
    IF S = {} THEN <<>>
    ELSE LET x == CHOOSE x \in S : \A y \in S : RowLeq(x, y)
         IN  <<x>> \o SortRows(S \ {x})

\* indices of the rows of frame t that belong to the group of row i and do
\* not come after it
GroupUpTo(t, i) == {j \in 1..i : t[j].region_id = t[i].region_id}

\* min_periods=1: a baseline from the first record on
WindowReadyOne(n) == n >= 1

\* at least min_periods observations in the window
WindowReady(n) == n >= RollMinPeriods

\* groupby("region_id")["total_activity"].transform(rolling(6, 3).mean()):
\* the mean, as [sum, n], of the last up to 6 records of the region
RollingMean(t, i) ==
    LET g == GroupUpTo(t, i)
        w == {j \in g : Cardinality({k \in g : k >= j}) <= RollWindow}
        RECURSIVE SumOver(_)
        SumOver(S) == IF S = {} THEN 0
                      ELSE LET j == CHOOSE j \in S : TRUE
                           IN  t[j].total_activity + SumOver(S \ {j})
    IN  IF WindowReady(Cardinality(w))
        THEN <<[sum |-> SumOver(w), n |-> Cardinality(w)]>>
        ELSE <<>>

\* an undefined baseline read as "no suppression" instead of fillna(0)
SuppressionRatioWarmupOne(total, baseline) ==
    IF baseline = <<>> THEN FracOne
    ELSE IF baseline[1].sum = 0 THEN FracZero
    ELSE Frac(total * baseline[1].n, baseline[1].sum)

\* total_activity / baseline, then replace([inf, -inf], 0).fillna(0)
SuppressionRatio(total, baseline) ==
    IF baseline = <<>> THEN FracZero                \* x / NaN = NaN -> 0
    ELSE IF baseline[1].sum = 0 THEN FracZero       \* x / 0 = inf or NaN -> 0
    ELSE Frac(total * baseline[1].n, baseline[1].sum)

WithBaseline(t) ==
    [i \in DOMAIN t |->
        [region_id          |-> t[i].region_id,
         yyyymm             |-> t[i].yyyymm,
         enrol_activity     |-> t[i].enrol_activity,
         demo_activity      |-> t[i].demo_activity,
         bio_activity       |-> t[i].bio_activity,
         total_activity     |-> t[i].total_activity,
         baseline_total_ma6 |-> RollingMean(t, i),
         suppression_ratio  |-> SuppressionRatio(t[i].total_activity,
                                                 RollingMean(t, i))]]


-----------------------------------------------------------------------------
(* szi_step4_silence_detection.py *)

RECURSIVE RunsFrom(_, _)
RunsFrom(flags, count) ==
    IF flags = <<>> THEN <<>>
    ELSE LET c == IF Head(flags) THEN count + 1 ELSE 0
         IN  <<c>> \o RunsFrom(Tail(flags), c)

\* count = 0; for v in flag_series: count += 1 if v else count = 0
compute_consecutive_runs(flag_series) == RunsFrom(flag_series, 0)

\* band reading of "moderate": 0.40 <= ratio < 0.60
FlagModerateBand(ratio) == LtPct(ratio, ModeratePct) /\ ~LtPct(ratio, SeverePct)

\* df["suppression_ratio"] < 0.60
FlagModerate(ratio) == LtPct(ratio, ModeratePct)

\* df["suppression_ratio"] < 0.40
FlagSevere(ratio) == LtPct(ratio, SeverePct)

\* the run counter taken over the whole frame, without the groupby
TransformRunsFlat(t, flags) == compute_consecutive_runs(flags)

\* df.groupby("region_id")[flag].transform(compute_consecutive_runs)
TransformRuns(t, flags) ==
    [i \in DOMAIN t |->
        LET idx == SelectSeq([j \in 1..Len(t) |-> j],
                             LAMBDA j : t[j].region_id = t[i].region_id)
            out == compute_consecutive_runs([k \in DOMAIN idx |-> flags[idx[k]]])
            pos == CHOOSE k \in DOMAIN idx : idx[k] = i
        IN  out[pos]]

\* the two .loc assignments applied in the other order
SilenceStateSwapped(moderate_run, severe_run) ==
    LET s0 == "Normal"
        s1 == IF severe_run >= SevereMinRun THEN "Severe" ELSE s0
        s2 == IF moderate_run >= ModerateMinRun THEN "Moderate" ELSE s1
    IN  s2

\* "Normal", then Moderate where moderate_run >= 2, then Severe where
\* severe_run >= 3
SilenceState(moderate_run, severe_run) ==
    LET s0 == "Normal"
        s1 == IF moderate_run >= ModerateMinRun THEN "Moderate" ELSE s0
        s2 == IF severe_run >= SevereMinRun THEN "Severe" ELSE s1
    IN  s2

\* ((1 - ratio) * 100).clip(lower=0)
SuppressionDepthPct(ratio) ==
    IF ratio.num >= ratio.den THEN FracZero
    ELSE Frac((ratio.den - ratio.num) * 100, ratio.den)

\* 0, then moderate_run where Moderate, then severe_run where Severe
SilenceDuration(state, moderate_run, severe_run) ==
    LET d0 == 0
        d1 == IF state = "Moderate" THEN moderate_run ELSE d0
        d2 == IF state = "Severe" THEN severe_run ELSE d1
    IN  d2

\* suppression_ratio.clip(lower=0, upper=1)
SZI(ratio) ==
    IF ratio.num < 0 THEN FracZero
    ELSE IF ratio.num > ratio.den THEN FracOne
    ELSE ratio

AlertSevereRun == 3       \* severe_run == 3
AlertModerateRun == 2     \* moderate_run == 2

\* the moderate alert raised on every month of the streak
AlertFlagSustained(moderate_run, severe_run, state) ==
    LET a0 == 0
        a1 == IF severe_run = AlertSevereRun THEN 1 ELSE a0
        a2 == IF moderate_run >= AlertModerateRun THEN 1 ELSE a1
        a3 == IF state = "Severe" THEN 1 ELSE a2
    IN  a3

\* the moderate_run == 2 assignment left out
AlertFlagNoModerate(moderate_run, severe_run, state) ==
    LET a0 == 0
        a1 == IF severe_run = AlertSevereRun THEN 1 ELSE a0
        a3 == IF state = "Severe" THEN 1 ELSE a1
    IN  a3

\* 0, then 1 where severe_run == 3, where moderate_run == 2, where Severe
AlertFlag(moderate_run, severe_run, state) ==
    LET a0 == 0
        a1 == IF severe_run = AlertSevereRun THEN 1 ELSE a0
        a2 == IF moderate_run = AlertModerateRun THEN 1 ELSE a1
        a3 == IF state = "Severe" THEN 1 ELSE a2
    IN  a3

recommend(row) ==
    IF row.silence_state = "Severe"
    THEN IF GtInt(row.suppression_depth_pct, DeepDepthPct)
         THEN "Deploy Mobile Van + Temporary Camp + Infra Audit"
         ELSE "Deploy Mobile Van + Temporary Camp"
    ELSE IF row.silence_state = "Moderate"
    THEN "Outreach + Temporary Camp + Monitoring"
    ELSE "Normal Monitoring"

\* the frame of step 4 after all derived columns are set
Detect(t) ==
    LET fm == [i \in DOMAIN t |-> FlagModerate(t[i].suppression_ratio)]
        fs == [i \in DOMAIN t |-> FlagSevere(t[i].suppression_ratio)]
        mr == TransformRuns(t, fm)
        sr == TransformRuns(t, fs)
    IN  [i \in DOMAIN t |->
            LET st  == SilenceState(mr[i], sr[i])
                dep == SuppressionDepthPct(t[i].suppression_ratio)
            IN  [region_id          |-> t[i].region_id,
                 yyyymm             |-> t[i].yyyymm,
                 enrol_activity     |-> t[i].enrol_activity,
                 demo_activity      |-> t[i].demo_activity,
                 bio_activity       |-> t[i].bio_activity,
                 total_activity     |-> t[i].total_activity,
                 baseline_total_ma6 |-> t[i].baseline_total_ma6,
                 suppression_ratio  |-> t[i].suppression_ratio,
                 flag_moderate      |-> fm[i],
                 flag_severe        |-> fs[i],
                 moderate_run       |-> mr[i],
                 severe_run         |-> sr[i],
                 silence_state      |-> st,
                 suppression_depth_pct |-> dep,
                 silence_duration_months |-> SilenceDuration(st, mr[i], sr[i]),
                 SZI                |-> SZI(t[i].suppression_ratio),
                 alert_flag         |-> AlertFlag(mr[i], sr[i], st),
                 recommendation     |->
                     recommend([silence_state |-> st,
                                suppression_depth_pct |-> dep])]]

\* df[final_cols]: the flag columns are not kept
FinalCols(t) ==
    [i \in DOMAIN t |->
        [region_id          |-> t[i].region_id,
         yyyymm             |-> t[i].yyyymm,
         enrol_activity     |-> t[i].enrol_activity,
         demo_activity      |-> t[i].demo_activity,
         bio_activity       |-> t[i].bio_activity,
         total_activity     |-> t[i].total_activity,
         baseline_total_ma6 |-> t[i].baseline_total_ma6,
         suppression_ratio  |-> t[i].suppression_ratio,
         suppression_depth_pct |-> t[i].suppression_depth_pct,
         moderate_run       |-> t[i].moderate_run,
         severe_run         |-> t[i].severe_run,
         silence_duration_months |-> t[i].silence_duration_months,
         SZI                |-> t[i].SZI,
         silence_state      |-> t[i].silence_state,
         alert_flag         |-> t[i].alert_flag,
         recommendation     |-> t[i].recommendation]]

-----------------------------------------------------------------------------
(* Actions of the pipeline (step 3 then step 4) *)

NotWritten == [written |-> FALSE, rows |-> <<>>]

\* lines 55-71: read, standardize, check the enrolment columns, activity
LoadEnrol ==
    /\ pc = "enrol"
    /\ IF StandardizeOK(files.enrol) /\ PartsPresent(files.enrol, enrol_parts)
       THEN /\ enrol' = LoadFrame(files.enrol)
            /\ pc' = "demo"
       ELSE /\ pc' = "aborted"
            /\ UNCHANGED enrol
    /\ UNCHANGED <<files, demo, bio, enrol_m, demo_m, bio_m, df,
                   timeseries_csv, df4, final_csv, partsVars>>

\* lines 74-89
LoadDemo ==
    /\ pc = "demo"
    /\ IF StandardizeOK(files.demo) /\ PartsPresent(files.demo, demo_parts)
       THEN /\ demo' = LoadFrame(files.demo)
            /\ pc' = "bio"
       ELSE /\ pc' = "aborted"
            /\ UNCHANGED demo
    /\ UNCHANGED <<files, enrol, bio, enrol_m, demo_m, bio_m, df,
                   timeseries_csv, df4, final_csv, partsVars>>

\* lines 92-107
LoadBio ==
    /\ pc = "bio"
    /\ IF StandardizeOK(files.bio) /\ PartsPresent(files.bio, bio_parts)
       THEN /\ bio' = LoadFrame(files.bio)
            /\ pc' = "aggregate"
       ELSE /\ pc' = "aborted"
            /\ UNCHANGED bio
    /\ UNCHANGED <<files, enrol, demo, enrol_m, demo_m, bio_m, df,
                   timeseries_csv, df4, final_csv, partsVars>>

\* lines 110-138: monthly aggregation, outer merge, fill, total, sort
AggregateMerge ==
    /\ pc = "aggregate"
    /\ enrol_m' = MonthlyAgg(enrol)
    /\ demo_m' = MonthlyAgg(demo)
    /\ bio_m' = MonthlyAgg(bio)
    /\ df' = SortRows(MergedRows(enrol_m', demo_m', bio_m'))
    /\ pc' = "baseline"
    /\ UNCHANGED <<files, enrol, demo, bio, timeseries_csv, df4, final_csv,
                   partsVars>>

\* lines 140-151: rolling baseline, suppression ratio, to_csv
BaselineSave ==
    /\ pc = "baseline"
    /\ df' = WithBaseline(df)
    /\ timeseries_csv' = [written |-> TRUE, rows |-> df']
    /\ pc' = "step4"
    /\ UNCHANGED <<files, enrol, demo, bio, enrol_m, demo_m, bio_m, df4,
                   final_csv, partsVars>>

\* szi_step4_silence_detection.py, lines 26-114
SilenceDetection ==
    /\ pc = "step4"
    /\ timeseries_csv.written
    /\ df4' = Detect(SortRows(Range(timeseries_csv.rows)))
    /\ final_csv' = [written |-> TRUE, rows |-> FinalCols(df4')]
    /\ pc' = "done"
    /\ UNCHANGED <<files, enrol, demo, bio, enrol_m, demo_m, bio_m, df,
                   timeseries_csv, partsVars>>

-----------------------------------------------------------------------------
(* merge_raw_parts.py : merge_csv_parts *)

RECURSIVE Concat(_)
Concat(frames) ==
    IF frames = <<>> THEN <<>> ELSE Head(frames) \o Concat(Tail(frames))

\* lines 8-14: glob; return when the folder holds no CSV
MergeStart ==
    /\ m_pc = "start"
    /\ IF m_files = <<>>
       THEN m_pc' = "returned_empty" /\ UNCHANGED m_i
       ELSE m_pc' = "loop" /\ m_i' = 1
    /\ df_list' = <<>>
    /\ UNCHANGED <<m_files, m_out, pipeVars>>

\* lines 15-21: one iteration of the loop, the except branch included
ReadShard ==
    /\ m_pc = "loop"
    /\ m_i <= Len(m_files)
    /\ IF m_files[m_i].readable
       THEN df_list' = Append(df_list, m_files[m_i].rows)
       ELSE UNCHANGED df_list
    /\ m_i' = m_i + 1
    /\ UNCHANGED <<m_pc, m_files, m_out, pipeVars>>

\* lines 23-26: pd.concat raises ValueError on an empty list
ConcatSave ==
    /\ m_pc = "loop"
    /\ m_i > Len(m_files)
    /\ IF df_list = <<>>
       THEN m_pc' = "raised" /\ UNCHANGED m_out
       ELSE /\ m_out' = [written |-> TRUE, rows |-> Concat(df_list)]
            /\ m_pc' = "done"
    /\ UNCHANGED <<m_files, m_i, df_list, pipeVars>>

-----------------------------------------------------------------------------
(* Inputs *)

Row(d, p, parts) == [date |-> d, pin |-> p, parts |-> parts]
Feed(cols, rows) == [columns |-> cols, rows |-> rows]

GoodColumns(parts, pin) == Range(required_basic) \cup {pin} \cup Range(parts)
MessyColumns(parts) == {" Date", "STATE", "District ", "PIN"} \cup Range(parts)

ColumnChoices(parts) ==
    {GoodColumns(parts, pin_candidates[i]) : i \in DOMAIN pin_candidates}
    \cup {GoodColumns(parts, "pin_code") \ {c} :
                c \in GoodColumns(parts, "pin_code")}
    \cup {MessyColumns(parts), GoodColumns(parts, "zip")}

\* a count v in the first sub-category column of n, zero in the others
Parts(n, v) == [j \in 1..n |-> IF j = 1 THEN <<v>> ELSE <<0>>]

\* inputs that vary the columns of the three feeds
SchemaInputs ==
    {[enrol |-> Feed(ce, <<Row(<<1, 1>>, "1", Parts(3, 1))>>),
      demo  |-> Feed(cd, <<Row(<<1, 1>>, "1", Parts(2, 1))>>),
      bio   |-> Feed(cb, <<Row(<<1, 1>>, "2", Parts(2, 1))>>)]
     : ce \in ColumnChoices(enrol_parts), cd \in ColumnChoices(demo_parts),
       cb \in ColumnChoices(bio_parts)}

\* the inputs in which exactly one feed lacks exactly one column
Lacking(parts) ==
    {GoodColumns(parts, "pin_code") \ {c} : c \in GoodColumns(parts, "pin_code")}

Plain(parts) == GoodColumns(parts, "pin_code")

BrokenInputs ==
    {x \in SchemaInputs :
        \/ /\ x.enrol.columns \in Lacking(enrol_parts)
           /\ x.demo.columns = Plain(demo_parts)
           /\ x.bio.columns = Plain(bio_parts)
        \/ /\ x.enrol.columns = Plain(enrol_parts)
           /\ x.demo.columns \in Lacking(demo_parts)
           /\ x.bio.columns = Plain(bio_parts)
        \/ /\ x.enrol.columns = Plain(enrol_parts)
           /\ x.demo.columns = Plain(demo_parts)
           /\ x.bio.columns \in Lacking(bio_parts)}

EnrolRowChoices ==
    {Row(<<1, 1>>,  "1",   <<<<1>>, <<0>>, <<1>>>>),
     Row(<<1, 20>>, "1.0", <<<<1>>, <<>>, <<0>>>>),
     Row(<<2, 1>>,  "1",   <<<<0>>, <<0>>, <<0>>>>),
     Row(<<1, 1>>,  "2",   <<<<1>>, <<1>>, <<1>>>>),
     Row(<<>>,      "1",   <<<<1>>, <<1>>, <<1>>>>),
     Row(<<1, 1>>,  "x",   <<<<1>>, <<1>>, <<1>>>>)}

DemoRowChoices ==
    {Row(<<1, 1>>, "1", <<<<2>>, <<1>>>>),
     Row(<<2, 5>>, "1", <<<<1>>, <<>>>>),
     Row(<<2, 1>>, "2", <<<<0>>, <<1>>>>)}

BioRowChoices ==
    {Row(<<1, 1>>, "1", <<<<1>>, <<1>>>>),
     Row(<<2, 1>>, "2", <<<<4>>, <<0>>>>),
     Row(<<3, 1>>, "1", <<<<0>>, <<0>>>>)}

\* inputs that vary the rows of the three feeds
MergeInputs ==
    {[enrol |-> Feed(GoodColumns(enrol_parts, "pin_code"), re),
      demo  |-> Feed(GoodColumns(demo_parts, "pincode"), rd),
      bio   |-> Feed(GoodColumns(bio_parts, "pin"), rb)]
     : re \in SeqsUpTo(EnrolRowChoices, MaxRows),
       rd \in SeqsUpTo(DemoRowChoices, MaxRows),
       rb \in SeqsUpTo(BioRowChoices, 1)}

SeriesValues == {0, 30, 100}

\* the worked example: seven months of total_activity of one region
ScenarioHistory == <<100, 100, 100, 100, 30, 25, 20>>

\* region 1 with the monthly totals h, written latest month first
HistoryRows(h, n) ==
    [i \in 1..Len(h) |->
        Row(<<Len(h) + 1 - i, 1>>, "1", Parts(n, h[Len(h) + 1 - i]))]

\* inputs with a long history of region 1 and one month of region 2
SeriesInputs ==
    {[enrol |-> Feed(GoodColumns(enrol_parts, "pin_code"), HistoryRows(h, 3)),
      demo  |-> Feed(GoodColumns(demo_parts, "pin_code"), <<>>),
      bio   |-> Feed(GoodColumns(bio_parts, "pin_code"),
                     <<Row(<<1, 1>>, "2", Parts(2, 100))>>)]
     : h \in SeqsUpTo(SeriesValues, MaxMonths)}

\* the worked example and its shorter histories, region 1 alone
ScenarioInputs ==
    {[enrol |-> Feed(GoodColumns(enrol_parts, "pin_code"), <<>>),
      demo  |-> Feed(GoodColumns(demo_parts, "pin_code"),
                     HistoryRows(SubSeq(ScenarioHistory, 1, n), 2)),
      bio   |-> Feed(GoodColumns(bio_parts, "pin_code"), <<>>)]
     : n \in 0..Len(ScenarioHistory)}

ShardChoices ==
    {[rows |-> <<>>, readable |-> TRUE],
     [rows |-> <<"a">>, readable |-> TRUE],
     [rows |-> <<"b", "c">>, readable |-> TRUE],
     [rows |-> <<>>, readable |-> FALSE]}

EmptyFeed == Feed({}, <<>>)

PipelineStart(inputs) ==
    /\ pc = "enrol"
    /\ files \in inputs
    /\ enrol = <<>> /\ demo = <<>> /\ bio = <<>>
    /\ enrol_m = <<>> /\ demo_m = <<>> /\ bio_m = <<>>
    /\ df = <<>>
    /\ timeseries_csv = NotWritten
    /\ df4 = <<>>
    /\ final_csv = NotWritten

PipelineIdle ==
    /\ pc = "idle"
    /\ files = [enrol |-> EmptyFeed, demo |-> EmptyFeed, bio |-> EmptyFeed]
    /\ enrol = <<>> /\ demo = <<>> /\ bio = <<>>
    /\ enrol_m = <<>> /\ demo_m = <<>> /\ bio_m = <<>>
    /\ df = <<>>
    /\ timeseries_csv = NotWritten
    /\ df4 = <<>>
    /\ final_csv = NotWritten

PartsIdle ==
    /\ m_pc = "idle"
    /\ m_files = <<>>
    /\ m_i = 0
    /\ df_list = <<>>
    /\ m_out = NotWritten

PartsStart ==
    /\ m_pc = "start"
    /\ m_files \in SeqsUpTo(ShardChoices, MaxShards)
    /\ m_i = 0
    /\ df_list = <<>>
    /\ m_out = NotWritten

-----------------------------------------------------------------------------
(* Specifications *)

Next ==
    \/ LoadEnrol
    \/ LoadDemo
    \/ LoadBio
    \/ AggregateMerge
    \/ BaselineSave
    \/ SilenceDetection

NextParts ==
    \/ MergeStart
    \/ ReadShard
    \/ ConcatSave

Init == PipelineStart(SchemaInputs \cup MergeInputs) /\ PartsIdle
Spec == Init /\ [][Next]_vars

InitSeries ==
    PipelineStart(SeriesInputs \cup ScenarioInputs \cup BrokenInputs)
    /\ PartsIdle
SpecSeries == InitSeries /\ [][Next]_vars

InitParts == PipelineIdle /\ PartsStart
SpecParts == InitParts /\ [][NextParts]_vars


-----------------------------------------------------------------------------
(* Properties *)

\* the records of region r in table t, in month order
Series(t, r) == SortRows({t[i] : i \in {j \in DOMAIN t : t[j].region_id = r}})
RegionsOf(t) == {t[i].region_id : i \in DOMAIN t}
Col(s, f) == [i \in DOMAIN s |-> s[i][f]]

BelowModerate(x) == x.suppression_ratio.num * 100 < 60 * x.suppression_ratio.den
BelowSevere(x) == x.suppression_ratio.num * 100 < 40 * x.suppression_ratio.den
InBand(x) == BelowModerate(x) /\ ~BelowSevere(x)

\* C1: per region, in month order, each run counter is the previous month's
\* counter plus 1 when its condition holds (0 before the first month) and 0
\* when it does not; counters are never negative and never continue from
\* another region.
C1_RunCounters ==
    final_csv.written =>
        \A r \in RegionsOf(final_csv.rows) :
            LET s == Series(final_csv.rows, r)
            IN  \A i \in DOMAIN s :
                    LET pm == IF i = 1 THEN 0 ELSE s[i-1].moderate_run
                        ps == IF i = 1 THEN 0 ELSE s[i-1].severe_run
                    IN  /\ s[i].moderate_run =
                               (IF BelowModerate(s[i]) THEN pm + 1 ELSE 0)
                        /\ s[i].severe_run =
                               (IF BelowSevere(s[i]) THEN ps + 1 ELSE 0)
                        /\ s[i].moderate_run >= 0
                        /\ s[i].severe_run >= 0

\* two regions, the first ending inside a streak, with a reset and a run of 3
C1_Witness ==
    /\ final_csv.written
    /\ RegionsOf(final_csv.rows) = {1, 2}
    /\ LET s == Series(final_csv.rows, 1)
       IN  /\ Len(s) >= 5
           /\ s[Len(s)].moderate_run >= 3
           /\ s[Len(s)].severe_run >= 1
           /\ \E i \in 2..Len(s) :
                 s[i].moderate_run = 0 /\ s[i-1].moderate_run = 2
    /\ Series(final_csv.rows, 2)[1].moderate_run = 1
    /\ Series(final_csv.rows, 2)[1].severe_run = 1

\* C2: silence_state is Severe iff severe_run >= 3, otherwise Moderate iff
\* moderate_run >= 2, otherwise Normal, in every record of the final table.
C2_StatePrecedence ==
    final_csv.written =>
        \A i \in DOMAIN final_csv.rows :
            LET x == final_csv.rows[i]
            IN  x.silence_state =
                    (IF x.severe_run >= 3 THEN "Severe"
                     ELSE IF x.moderate_run >= 2 THEN "Moderate"
                     ELSE "Normal")

\* a table holding all three states, Severe on a record that also qualifies
\* as Moderate
C2_Witness ==
    /\ final_csv.written
    /\ \E i, j, k \in DOMAIN final_csv.rows :
          /\ final_csv.rows[i].silence_state = "Severe"
          /\ final_csv.rows[i].moderate_run >= 2
          /\ final_csv.rows[j].silence_state = "Moderate"
          /\ final_csv.rows[j].severe_run = 2
          /\ final_csv.rows[k].silence_state = "Normal"

\* C3: alert_flag is 1 exactly on the records where silence_state is Severe
\* or moderate_run = 2 or severe_run = 3, and 0 on every other record.
C3_AlertUnion ==
    final_csv.written =>
        \A i \in DOMAIN final_csv.rows :
            LET x == final_csv.rows[i]
            IN  x.alert_flag =
                    (IF \/ x.silence_state = "Severe"
                        \/ x.moderate_run = 2
                        \/ x.severe_run = 3
                     THEN 1 ELSE 0)

\* alerts raised by each of the three causes alone, and a Moderate record
\* without alert
C3_Witness ==
    /\ final_csv.written
    /\ \E i, j, k \in DOMAIN final_csv.rows :
          /\ final_csv.rows[i].alert_flag = 1
          /\ final_csv.rows[i].severe_run > 3
          /\ final_csv.rows[i].moderate_run > 3
          /\ final_csv.rows[j].alert_flag = 1
          /\ final_csv.rows[j].moderate_run = 2
          /\ final_csv.rows[j].silence_state = "Moderate"
          /\ final_csv.rows[k].alert_flag = 0
          /\ final_csv.rows[k].silence_state = "Moderate"

ScenarioRegion(r) ==
    /\ pc = "done"
    /\ Col(Series(df4, r), "total_activity") = ScenarioHistory

ScenarioFinalMonth(r) ==
    LET s == Series(df4, r)
    IN  /\ s[7].silence_state = "Severe"
        /\ s[7].alert_flag = 1
        /\ s[7].silence_duration_months = 3

\* C4 as stated: the history 100,100,100,100,30,25,20 yields flag_severe
\* F,F,F,F,T,T,T and severe_run 0,0,0,0,1,2,3, and the final month is Severe
\* with alert_flag 1 and silence_duration_months 3.
C4_AsStated ==
    \A r \in RegionsOf(df4) :
        ScenarioRegion(r) =>
            /\ Col(Series(df4, r), "flag_severe") =
                   <<FALSE, FALSE, FALSE, FALSE, TRUE, TRUE, TRUE>>
            /\ Col(Series(df4, r), "severe_run") = <<0, 0, 0, 0, 1, 2, 3>>
            /\ ScenarioFinalMonth(r)

\* C4 amended: the history 100,100,100,100,30,25,20 yields flag_severe
\* T,T,F,F,T,T,T and severe_run 1,2,0,0,1,2,3 (the two months without a
\* baseline have ratio 0), and the final month is Severe with alert_flag 1
\* and silence_duration_months 3.
C4_Scenario ==
    \A r \in RegionsOf(df4) :
        ScenarioRegion(r) =>
            /\ Col(Series(df4, r), "flag_severe") =
                   <<TRUE, TRUE, FALSE, FALSE, TRUE, TRUE, TRUE>>
            /\ Col(Series(df4, r), "severe_run") = <<1, 2, 0, 0, 1, 2, 3>>
            /\ ScenarioFinalMonth(r)

C4_Witness ==
    /\ final_csv.written
    /\ \E r \in RegionsOf(df4) : ScenarioRegion(r)

\* C5: when a streak of months with ratio in [0.40, 0.60) starts right after
\* a month outside the moderate condition, its second month has
\* moderate_run = 2, state Moderate and alert_flag 1, and every later month
\* of the streak is Moderate with alert_flag 0.
C5_ModerateAlertOnce ==
    final_csv.written =>
        \A r \in RegionsOf(final_csv.rows) :
            LET s == Series(final_csv.rows, r)
            IN  \A k \in 2..Len(s) : \A j \in (k+1)..Len(s) :
                    (/\ ~BelowModerate(s[k-1])
                     /\ \A i \in k..j : InBand(s[i]))
                    => /\ s[k+1].moderate_run = 2
                       /\ s[k+1].silence_state = "Moderate"
                       /\ s[k+1].alert_flag = 1
                       /\ j >= k + 2 =>
                            /\ s[j].silence_state = "Moderate"
                            /\ s[j].alert_flag = 0

\* a streak of at least three months in the band
C5_Witness ==
    /\ final_csv.written
    /\ \E r \in RegionsOf(final_csv.rows) :
          LET s == Series(final_csv.rows, r)
          IN  \E k \in 2..Len(s) :
                 /\ k + 2 <= Len(s)
                 /\ ~BelowModerate(s[k-1])
                 /\ \A i \in k..(k+2) : InBand(s[i])

RECURSIVE TotalOf(_, _, _)
TotalOf(s, lo, hi) ==
    IF lo > hi THEN 0 ELSE s[lo].total_activity + TotalOf(s, lo + 1, hi)

\* C6: per region, in month order, baseline_total_ma6 is undefined on the
\* first two records and defined from the third on, where it is the mean of
\* total_activity over the record and up to five records of the same region
\* right before it.
C6_BaselineWarmup ==
    timeseries_csv.written =>
        \A r \in RegionsOf(timeseries_csv.rows) :
            LET s == Series(timeseries_csv.rows, r)
            IN  \A i \in DOMAIN s :
                    LET lo == IF i > 6 THEN i - 5 ELSE 1
                        b == s[i].baseline_total_ma6
                    IN  IF i <= 2 THEN b = <<>>
                        ELSE /\ b # <<>>
                             /\ b[1].n > 0
                             /\ b[1].sum * (i - lo + 1) =
                                    TotalOf(s, lo, i) * b[1].n

\* a region with more than six records next to another region, the window
\* having dropped a record that changes the mean
C6_Witness ==
    /\ timeseries_csv.written
    /\ RegionsOf(timeseries_csv.rows) = {1, 2}
    /\ LET s == Series(timeseries_csv.rows, 1)
       IN  /\ Len(s) >= 7
           /\ s[1].total_activity = 100
           /\ s[7].baseline_total_ma6 # <<>>
           /\ s[7].baseline_total_ma6[1].sum = 0
           /\ s[6].baseline_total_ma6[1].sum = 100

KeysIn(agg) == DOMAIN agg

\* C7: the merged series holds exactly one record per (region, month) pair
\* of the three monthly aggregates and no other pair; a source without a row
\* for the pair contributes 0, a source with a row its aggregated sum, and
\* total_activity is the sum of the three.
C7_MergeComplete ==
    pc \in {"baseline", "step4", "done"} =>
        LET K == KeysIn(enrol_m) \cup KeysIn(demo_m) \cup KeysIn(bio_m)
            key(x) == <<x.region_id, x.yyyymm>>
        IN  /\ \A k \in K :
                  Cardinality({i \in DOMAIN df : key(df[i]) = k}) = 1
            /\ \A i \in DOMAIN df :
                  LET k == key(df[i])
                  IN  /\ k \in K
                      /\ df[i].enrol_activity =
                            (IF k \in KeysIn(enrol_m) THEN enrol_m[k] ELSE 0)
                      /\ df[i].demo_activity =
                            (IF k \in KeysIn(demo_m) THEN demo_m[k] ELSE 0)
                      /\ df[i].bio_activity =
                            (IF k \in KeysIn(bio_m) THEN bio_m[k] ELSE 0)
                      /\ df[i].total_activity =
                            df[i].enrol_activity + df[i].demo_activity
                                + df[i].bio_activity

\* a pair known to the biometric aggregate alone, a pair summed from two
\* enrolment rows and also known to the demographic aggregate, and a pair
\* known to the demographic aggregate alone
C7_Witness ==
    /\ pc = "done"
    /\ \E k1 \in KeysIn(bio_m) :
          k1 \notin KeysIn(enrol_m) /\ k1 \notin KeysIn(demo_m) /\ bio_m[k1] > 0
    /\ \E k2 \in KeysIn(enrol_m) :
          k2 \in KeysIn(demo_m) /\ k2 \notin KeysIn(bio_m) /\ enrol_m[k2] > 2
    /\ \E k3 \in KeysIn(demo_m) :
          k3 \notin KeysIn(enrol_m) /\ k3 \notin KeysIn(bio_m)

\* the feed has every column the run requires of it
HasRequired(feed, parts) ==
    LET cols == CanonCols(feed.columns)
    IN  /\ {"date", "state", "district"} \subseteq cols
        /\ cols \cap {"pin_code", "pincode", "pin", "postal_code"} # {}
        /\ Range(parts) \subseteq cols

\* C8: when a feed lacks a required column the run aborts at that feed and
\* writes no output table; the output is written only after all three feeds
\* passed their schema checks.
C8_SchemaAbort ==
    /\ ~HasRequired(files.enrol, enrol_parts) => pc \in {"enrol", "aborted"}
    /\ ~HasRequired(files.demo, demo_parts) => pc \in {"enrol", "demo", "aborted"}
    /\ ~HasRequired(files.bio, bio_parts) =>
            pc \in {"enrol", "demo", "bio", "aborted"}
    /\ pc = "aborted" => ~timeseries_csv.written /\ df = <<>>
    /\ timeseries_csv.written =>
            /\ HasRequired(files.enrol, enrol_parts)
            /\ HasRequired(files.demo, demo_parts)
            /\ HasRequired(files.bio, bio_parts)

\* the run aborted on the last feed, which lacks its district column
C8_Witness ==
    /\ pc = "aborted"
    /\ HasRequired(files.enrol, enrol_parts)
    /\ HasRequired(files.demo, demo_parts)
    /\ "district" \notin CanonCols(files.bio.columns)
    /\ ~timeseries_csv.written

RECURSIVE ReadableRows(_)
ReadableRows(shards) ==
    IF shards = <<>> THEN <<>>
    ELSE (IF Head(shards).readable THEN Head(shards).rows ELSE <<>>)
             \o ReadableRows(Tail(shards))

\* C9: for a non-empty set of shards and any subset whose read fails,
\* merge_csv_parts completes without raising and writes the rows of exactly
\* the shards that were read.
C9_ShardFailureTolerated ==
    (m_files # <<>> /\ m_pc \notin {"start", "loop"}) =>
        /\ m_pc = "done"
        /\ m_out.written
        /\ m_out.rows = ReadableRows(m_files)

\* C10: severe_run <= moderate_run in every record; a Severe record has
\* moderate_run >= 3 and a Normal record has severe_run <= 1.
C10_SevereWithinModerate ==
    final_csv.written =>
        \A i \in DOMAIN final_csv.rows :
            LET x == final_csv.rows[i]
            IN  /\ x.severe_run <= x.moderate_run
                /\ x.silence_state = "Severe" => x.moderate_run >= 3
                /\ x.silence_state = "Normal" => x.severe_run <= 1

\* a Severe record inside a longer moderate streak, and a Normal record in
\* the first month of a severe run
C10_Witness ==
    /\ final_csv.written
    /\ \E i, j \in DOMAIN final_csv.rows :
          /\ final_csv.rows[i].silence_state = "Severe"
          /\ final_csv.rows[i].moderate_run > final_csv.rows[i].severe_run
          /\ final_csv.rows[j].silence_state = "Normal"
          /\ final_csv.rows[j].severe_run = 1

=============================================================================
